---------------------------- MODULE Spec2Model ----------------------------
(***************************************************************************)
(* Model of repo-rs: the per-repository update sequence (Repo::update_repo *)
(* in src/src/repo.rs), the batch orchestration of `pull`                  *)
(* (src/src/main.rs), the registry (src/src/config.rs) and the             *)
(* same-repository relation (impl PartialEq for Repo).                     *)
(***************************************************************************)
EXTENDS Integers, Sequences, FiniteSets, TLC

VARIABLES
    allow_stash,  \* pull's allow_stash flag (main.rs:126, 258)
    repo,         \* per repository: the Repo struct (key, branch, repository)
    git,          \* per repository: the working copy on disk, as git sees it
    start,        \* per repository: the working copy as it was when the batch began
    task,         \* per repository: the spawned task and update_repo's locals
    batch,        \* the orchestrator (pull + join_and_handle_errors)
    config,       \* Config.repos: map key -> Repo descriptor
    last,         \* the last registry operation and its argument
    eq,           \* tests::equality: three descriptors and the three comparisons
    file,         \* the config file on disk (main.rs:250): its content
    opts,         \* the batch subcommand and its flags (main.rs:253-269)
    stdout        \* what the batch has printed to standard output, line by line

vars == <<allow_stash, repo, git, start, task, batch, config, last, eq, file, opts, stdout>>

updateVars == <<allow_stash, repo, git, start, task, batch>>
registryVars == <<config, last>>

---------------------------------------------------------------------------
(* Bounds *)

NumRepos == 2
Repos == 1..NumRepos

\* the key of repository r is r itself; errors without a key carry NoKey
NoKey == 0

\* RepoBuilder::new's default branch, and one other branch
DefaultBranch == "master"
Branches == {DefaultBranch, "dev"}

\* the user's uncommitted changes to tracked files
Work == {"w"}

---------------------------------------------------------------------------
(* Results: Result<T, RepoRsError> *)

Ok(v) == [ok |-> TRUE, kind |-> "Ok", key |-> NoKey, value |-> v]
Err(kind, key) == [ok |-> FALSE, kind |-> kind, key |-> key, value |-> "none"]
Pending == [ok |-> FALSE, kind |-> "Pending", key |-> NoKey, value |-> "none"]

\* From<git2::Error> and From<std::io::Error>: the variant wraps the library
\* error alone, no key
GitError == Err("GitError", NoKey)
IOError == Err("IOError", NoKey)

\* the `?` operator: an Err returns from the enclosing function
Propagate(res) == ~res.ok


---------------------------------------------------------------------------
(* The git working copy behind a Repo, and what a git subcommand does to it *)

\* outcomes of one external process: exit 0, non-zero exit, or the process
\* could not be spawned (cmd.output() returns Err)
Outcomes == {"ok", "fail", "spawn"}

\* a command that any outcome is possible for; `git stash pop` cannot exit 0
\* on an empty stash list
Feasible(g, args, o) ==
    (args = <<"stash", "pop">> /\ g.stash = <<>>) => o # "ok"

\* the effect of `git <args>` on the working copy; a command that did not
\* exit 0 leaves branch, working tree and stash list as they were
GitEffect(g, args, o) ==
    IF o # "ok" THEN g
    ELSE IF args = <<"stash">> THEN
        IF g.worktree = {} THEN g
        ELSE [g EXCEPT !.stash = <<g.worktree>> \o @, !.worktree = {}]
    ELSE IF args = <<"stash", "pop">> THEN
        [g EXCEPT !.worktree = @ \cup Head(g.stash), !.stash = Tail(@)]
    ELSE IF args = <<"stash", "drop">> THEN
        [g EXCEPT !.stash = Tail(@)]
    ELSE IF Len(args) = 2 /\ args[1] = "checkout" THEN
        [g EXCEPT !.head = args[2]]
    ELSE g

---------------------------------------------------------------------------
(* Repo's methods (src/src/repo.rs) *)

\* Repo::repository
repository(r) ==
    IF repo[r].repository = "Some" THEN Ok("handle")
    ELSE Err("UninitializedRepoObject", repo[r].key)

\* Repo::validate_working_state
validate_any_state(r) ==
    IF Propagate(repository(r)) THEN repository(r) ELSE Ok("unit")
validate_working_state(r) ==
    IF Propagate(repository(r)) THEN repository(r)
    ELSE IF git[r].state = "Clean" THEN Ok("unit")
    ELSE Err("OperationsInProgress", repo[r].key)

\* Repo::is_dirty; o: what libgit2 answers
DirtyOutcomes == {"ok", "index_err", "diff_err"}
is_dirty(r, o) ==
    IF Propagate(repository(r)) THEN repository(r)
    ELSE IF o = "index_err" THEN GitError
    ELSE IF o = "diff_err" THEN Ok(FALSE)
    ELSE Ok(git[r].worktree # {})

\* Repo::current_branch; o: what libgit2 answers
BranchOutcomes == {"ok", "head_err", "no_shorthand"}
current_branch(r, o) ==
    IF Propagate(repository(r)) THEN repository(r)
    ELSE IF o = "head_err" THEN GitError
    ELSE IF o = "no_shorthand" THEN Err("BranchUnknown", repo[r].key)
    ELSE Ok(git[r].head)

\* what one external process did: whether it could be spawned, its exit
\* code, and the bytes it wrote ("bad": bytes that are not valid UTF-8)
ExitCodes == {0, 1}
Procs ==
    [spawned : {TRUE}, code : ExitCodes,
     stdout : {"", "out", "bad"}, stderr : {"", "err", "bad"}]
    \cup {[spawned |-> FALSE, code |-> 0, stdout |-> "", stderr |-> ""]}
NoProc == [spawned |-> FALSE, code |-> 0, stdout |-> "", stderr |-> ""]
\* std::process::Output
Output(proc) == [status |-> proc.code, stdout |-> proc.stdout, stderr |-> proc.stderr]

\* Repo::run: the result with everything the process wrote
run_dropping_output(r, cmd, proc) ==
    IF ~proc.spawned THEN IOError
    ELSE IF proc.code # 0
         THEN [Err("CommandFailed", repo[r].key) EXCEPT
                  !.value = [cmd |-> cmd,
                             output |-> [status |-> proc.code, stdout |-> "", stderr |-> ""]]]
         ELSE Ok(Output(proc))
run_captured(r, cmd, proc) ==
    IF ~proc.spawned THEN IOError
    ELSE IF proc.code # 0
         THEN [Err("CommandFailed", repo[r].key) EXCEPT
                  !.value = [cmd |-> cmd, output |-> Output(proc)]]
         ELSE Ok(Output(proc))

\* the process behind an outcome of a git subcommand of update_repo
ProcOf(o) ==
    [spawned |-> o # "spawn", code |-> IF o = "fail" THEN 1 ELSE 0,
     stdout |-> IF o = "ok" THEN "out" ELSE "", stderr |-> IF o = "fail" THEN "err" ELSE ""]

\* Repo::run as update_repo uses it: the result without the captured bytes
run(r, args, o) ==
    LET res == run_captured(r, <<"git">> \o args, ProcOf(o))
    IN IF res.ok THEN Ok("output") ELSE Err(res.kind, res.key)

\* the argument vectors of the git subcommands
stash_args == <<"stash">>
stash_drop_args == <<"stash", "drop">>
stash_pop_args == <<"stash", "pop">>
checkout_args(branch) == <<"checkout", branch>>
rebase_args == <<"pull", "--rebase">>

---------------------------------------------------------------------------
(* Repo::update_repo, one action per call it makes *)

\* lines 103-109: what follows the dirty check
stash_gate_ignoring_flag(dirty, allow) ==
    IF dirty THEN "stash" ELSE "current_branch"
stash_gate(dirty, allow) ==
    IF dirty THEN (IF allow THEN "stash" ELSE "RepoDirty")
    ELSE "current_branch"

\* line 113
always_change(branch, original_branch) == TRUE
requires_branch_change(branch, original_branch) == branch # original_branch

\* line 129
never_undo(dirty, allow) == FALSE
undo_stash(dirty, allow) == dirty /\ allow

\* lines 123-133: what follows the checkout of the original branch
after_restore_ignoring_failure(t, res) ==
    IF undo_stash(t.dirty, allow_stash) THEN "stash_pop"
    ELSE "returned"
after_restore(t, res) ==
    IF Propagate(res) THEN "returned"
    ELSE IF undo_stash(t.dirty, allow_stash) THEN "stash_pop"
    ELSE "returned"

\* lines 121-133: what follows pull --rebase
after_rebase_retrying(t, res) ==
    IF Propagate(res) THEN (IF Len(t.cmds) < 3 THEN "rebase" ELSE "returned")
    ELSE IF t.requires_branch_change THEN "checkout_original"
    ELSE IF undo_stash(t.dirty, allow_stash) THEN "stash_pop"
    ELSE "returned"
after_rebase_compensating(t, res) ==
    IF t.requires_branch_change THEN "checkout_original"
    ELSE IF undo_stash(t.dirty, allow_stash) THEN "stash_pop"
    ELSE "returned"
after_rebase(t, res) ==
    IF Propagate(res) THEN "returned"
    ELSE IF t.requires_branch_change THEN "checkout_original"
    ELSE IF undo_stash(t.dirty, allow_stash) THEN "stash_pop"
    ELSE "returned"

\* a task runs only while the process lives: exit() ends every task
Alive == batch.pc \in {"spawn", "join"}
At(r, pc) == Alive /\ task[r].pc = pc

Called(t, c, o) == [t EXCEPT !.calls = Append(@, [call |-> c, o |-> o])]
Issued(t, args, o) == [t EXCEPT !.cmds = Append(@, [args |-> args, o |-> o])]
\* update_repo returns res to the spawned task (main.rs:135-139), which prints
\* "Updated <key>" after an Ok and resolves with the result
Return(t, res) == [t EXCEPT !.pc = "finished", !.ret = res, !.updated = res.ok]
Goto(t, pc) == [t EXCEPT !.pc = pc]

\* what update_repo returns when it ends after a step with result res
Final(t, res) == IF Propagate(res) THEN res ELSE Ok(t.output)

\* line 97
Validate(r) ==
    /\ At(r, "validate")
    /\ LET res == validate_working_state(r)
           t == Called(task[r], "validate", IF res.ok THEN "ok" ELSE "err")
       IN task' = [task EXCEPT ![r] =
                     IF Propagate(res) THEN Return(t, res) ELSE Goto(t, "is_dirty")]
    /\ UNCHANGED <<allow_stash, repo, git, start, batch, config, last, eq, file, opts, stdout>>

\* lines 100-109
CheckDirty(r, o) ==
    /\ At(r, "is_dirty")
    /\ LET res == is_dirty(r, o)
           t == Called(task[r], "is_dirty", IF res.ok THEN "ok" ELSE "err")
       IN task' = [task EXCEPT ![r] =
                     IF Propagate(res) THEN Return(t, res)
                     ELSE LET d == [t EXCEPT !.dirty = res.value]
                              next == stash_gate(res.value, allow_stash)
                          IN IF next = "RepoDirty"
                             THEN Return(d, Err("RepoDirty", repo[r].key))
                             ELSE Goto(d, next)]
    /\ UNCHANGED <<allow_stash, repo, git, start, batch, config, last, eq, file, opts, stdout>>

\* a git subcommand of update_repo: run it, then go to `next` or return
Command(r, args, o, next, res) ==
    /\ Feasible(git[r], args, o)
    /\ git' = [git EXCEPT ![r] = GitEffect(@, args, o)]
    /\ task' = [task EXCEPT ![r] =
                  LET t == Issued(task[r], args, o)
                  IN IF next = "returned" THEN Return(t, Final(t, res))
                     ELSE Goto(t, next)]
    /\ UNCHANGED <<allow_stash, repo, start, batch, config, last, eq, file, opts, stdout>>

\* line 105
Stash(r, o) ==
    /\ At(r, "stash")
    /\ LET res == run(r, stash_args, o)
       IN Command(r, stash_args, o,
                  IF Propagate(res) THEN "returned" ELSE "current_branch", res)

\* lines 112-113
CurrentBranch(r, o) ==
    /\ At(r, "current_branch")
    /\ LET res == current_branch(r, o)
           t == Called(task[r], "current_branch", IF res.ok THEN "ok" ELSE "err")
       IN task' = [task EXCEPT ![r] =
                     IF Propagate(res) THEN Return(t, res)
                     ELSE LET change == requires_branch_change(repo[r].branch, res.value)
                          IN Goto([t EXCEPT !.original_branch = res.value,
                                            !.requires_branch_change = change],
                                  IF change THEN "checkout_target" ELSE "rebase")]
    /\ UNCHANGED <<allow_stash, repo, git, start, batch, config, last, eq, file, opts, stdout>>

\* lines 116-118
CheckoutTarget(r, o) ==
    /\ At(r, "checkout_target")
    /\ LET args == checkout_args(repo[r].branch)
           res == run(r, args, o)
       IN Command(r, args, o, IF Propagate(res) THEN "returned" ELSE "rebase", res)

\* line 121
Rebase(r, o) ==
    /\ At(r, "rebase")
    /\ LET res == run(r, rebase_args, o)
           next == after_rebase(task[r], res)
       IN /\ Feasible(git[r], rebase_args, o)
          /\ git' = [git EXCEPT ![r] = GitEffect(@, rebase_args, o)]
          /\ task' = [task EXCEPT ![r] =
                        LET t == [Issued(task[r], rebase_args, o) EXCEPT
                                     !.output = IF res.ok THEN res.value ELSE @]
                        IN IF next = "returned" THEN Return(t, Final(t, res))
                           ELSE Goto(t, next)]
    /\ UNCHANGED <<allow_stash, repo, start, batch, config, last, eq, file, opts, stdout>>

\* lines 124-126
CheckoutOriginal(r, o) ==
    /\ At(r, "checkout_original")
    /\ LET args == checkout_args(task[r].original_branch)
           res == run(r, args, o)
       IN Command(r, args, o, after_restore(task[r], res), res)

\* lines 129-133
StashPop(r, o) ==
    /\ At(r, "stash_pop")
    /\ LET res == run(r, stash_pop_args, o)
       IN Command(r, stash_pop_args, o, "returned", res)


---------------------------------------------------------------------------
(* pull and join_and_handle_errors (src/src/main.rs) *)

\* main.rs:129-141, 158-178, 193-209: config.repos.iter() visits the map in
\* no fixed order; tokio::spawn starts the task
first_step(op) ==
    IF op = "pull" THEN "validate" ELSE IF op = "run" THEN "run" ELSE "status"
Spawn(r) ==
    /\ batch.pc = "spawn"
    /\ task[r].pc = "unspawned"
    /\ task' = [task EXCEPT ![r].pc = first_step(opts.op)]
    /\ batch' = [batch EXCEPT !.pc =
                    IF \A q \in Repos \ {r} : task[q].pc # "unspawned"
                    THEN "join" ELSE "spawn"]
    /\ UNCHANGED <<allow_stash, repo, git, start, config, last, eq, file, opts, stdout>>

\* main.rs:58: join_all(tasks).await resolves once every handle has resolved
join_first_error ==
    \/ \A r \in Repos : task[r].pc = "finished"
    \/ \E r \in Repos : task[r].pc = "finished" /\ ~task[r].ret.ok
join_all == \A r \in Repos : task[r].pc = "finished"

\* main.rs:66-76: handle_errors
handle_errors(message, results) ==
    LET errors == {r \in DOMAIN results : ~results[r].ok}
    IN IF errors # {}
       THEN [pc |-> "exit", printed |-> errors, message |-> message]
       ELSE [pc |-> "done", printed |-> {}, message |-> ""]

\* main.rs:143 with 57-64
Join ==
    /\ batch.pc = "join"
    /\ join_all
    /\ batch' = handle_errors("Not all repos could be updated",
                              [r \in {q \in Repos : task[q].pc = "finished"} |-> task[r].ret])
    /\ UNCHANGED <<allow_stash, repo, git, start, task, config, last, eq, file, opts, stdout>>

---------------------------------------------------------------------------
(* run and status: one task per repository, output in blocks (src/src/main.rs) *)

\* main.rs:153-155 and repo.rs:90: the program and arguments of the batch
Invocation(op) == IF op = "run" THEN <<"prog", "arg">> ELSE <<"git", "status">>

\* a task that panicked: the JoinError its handle yields
Panicked == [ok |-> FALSE, kind |-> "JoinError", key |-> NoKey, value |-> "none"]

\* a line of standard output: the repository it is about and its text
Line(k, text) == [key |-> k, text |-> text]
DoneLine == Line(NoKey, "done")

\* main.rs:34-55: the header and the non-empty streams, or nothing when both
\* streams are empty; from_utf8(..).expect panics on bytes that are not UTF-8
collect_output(header, result) ==
    IF result.stdout # "" \/ result.stderr # ""
    THEN IF result.stdout = "bad" \/ result.stderr = "bad"
         THEN [kind |-> "panic", lines |-> <<>>]
         ELSE [kind |-> "some",
               lines |-> <<Line(header, "header")>>
                         \o (IF result.stdout # "" THEN <<Line(header, result.stdout)>> ELSE <<>>)
                         \o (IF result.stderr # "" THEN <<Line(header, result.stderr)>> ELSE <<>>)]
    ELSE [kind |-> "none", lines |-> <<>>]

\* println!("{}", output): the whole block goes out under the stdout lock
println_unlocked(out, lines) ==
    IF Len(out) > 0 /\ Len(lines) > 1
    THEN SubSeq(out, 1, Len(out) - 1) \o <<lines[1]>> \o <<out[Len(out)]>>
         \o SubSeq(lines, 2, Len(lines))
    ELSE out \o lines
println(out, lines) == out \o lines

\* a task of run or status ends with its result
Resolve(t, res) == [t EXCEPT !.pc = "finished", !.ret = res]

\* repo.rs:88-93: Repo::status up to the decision whether to run `git status`
StatusCheck(r, o) ==
    /\ At(r, "status")
    /\ o \in DirtyOutcomes
    /\ LET require_dirty == ~opts.all
           res == is_dirty(r, o)
       IN IF ~require_dirty
          THEN task' = [task EXCEPT ![r] = Goto(@, "run")]
          ELSE IF Propagate(res)
               THEN task' = [task EXCEPT ![r] = Resolve(Called(@, "is_dirty", "err"), res)]
               ELSE IF res.value
                    THEN task' = [task EXCEPT
                                     ![r] = Goto([Called(@, "is_dirty", "ok") EXCEPT
                                                     !.dirty = TRUE], "run")]
                    ELSE task' = [task EXCEPT
                                     ![r] = Resolve(Called(@, "is_dirty", "ok"), Ok("None"))]
    /\ UNCHANGED <<allow_stash, repo, git, start, batch, config, last, eq, file, opts, stdout>>

\* main.rs:169 / repo.rs:90: the command runs to completion in the repository
RunCommand(r, proc) ==
    /\ At(r, "run")
    /\ proc \in Procs
    /\ LET res == run_captured(r, Invocation(opts.op), proc)
           t == [task[r] EXCEPT !.proc = proc, !.ran = TRUE, !.run = res]
       IN task' = [task EXCEPT
                      ![r] = IF Propagate(res)
                             THEN Resolve(t, res)
                             ELSE Goto([t EXCEPT !.output = res.value], "collect")]
    /\ UNCHANGED <<allow_stash, repo, git, start, batch, config, last, eq, file, opts, stdout>>

\* main.rs:170-173, 199-203: the block of a completed command is printed
Emit(r) ==
    /\ At(r, "collect")
    /\ LET block == collect_output(repo[r].key, task[r].output)
       IN /\ task' = [task EXCEPT
                         ![r] = Resolve(@, IF block.kind = "panic" THEN Panicked
                                           ELSE Ok("unit"))]
          /\ stdout' = IF block.kind = "some" THEN println(stdout, block.lines) ELSE stdout
    /\ UNCHANGED <<allow_stash, repo, git, start, batch, config, last, eq, file, opts>>

\* main.rs:57-64: a JoinError ends the program before any task error is printed
join_and_handle_errors(message, results) ==
    IF \E r \in DOMAIN results : results[r].kind = "JoinError"
    THEN [pc |-> "exit", printed |-> {}, message |-> "Error with runtime"]
    ELSE handle_errors(message, results)

FailureMessage(op) ==
    IF op = "run" THEN "Not all commands succeeded"
    ELSE "Could not get status of all repos"

\* main.rs:180-184, 211: quiet awaits the tasks and drops their results
report_always(o, results) == join_and_handle_errors(FailureMessage(o.op), results)
report(o, results) ==
    IF o.op = "run" /\ o.quiet
    THEN [pc |-> "done", printed |-> {}, message |-> ""]
    ELSE join_and_handle_errors(FailureMessage(o.op), results)

\* main.rs:180-186, 211-213: the end of a run or status batch
JoinBatch ==
    /\ batch.pc = "join"
    /\ opts.op \in {"run", "status"}
    /\ join_all
    /\ LET results == [r \in {q \in Repos : task[q].pc = "finished"} |-> task[r].ret]
           b == report(opts, results)
       IN /\ batch' = b
          /\ stdout' = IF b.pc = "done" THEN println(stdout, <<DoneLine>>) ELSE stdout
    /\ UNCHANGED <<allow_stash, repo, git, start, task, config, last, eq, file, opts>>

---------------------------------------------------------------------------
(* Repo descriptors, their equality, and the registry (Config) *)

NumKeys == 2
NumPaths == 2
Keys == 1..NumKeys
Paths == 1..NumPaths
Remotes == {"origin", "upstream"}

\* the serialized fields of Repo (repo.rs:7-15)
Descriptors == [key : Keys, path : Paths, remote : Remotes, branch : Branches]
NoDescriptor == [key |-> 0, path |-> 0, remote |-> "", branch |-> ""]

\* impl PartialEq for Repo
eq_key_and_path(a, b) == a.key = b.key /\ a.path = b.path
RepoEq(a, b) == a.key = b.key \/ a.path = b.path

\* Config::add: HashMap::insert under candidate.key
add_unless_contained(repos, candidate) ==
    IF \E k \in DOMAIN repos :
          repos[k].key = candidate.key \/ repos[k].path = candidate.path
    THEN repos
    ELSE [k \in DOMAIN repos \cup {candidate.key} |->
             IF k = candidate.key THEN candidate ELSE repos[k]]
add(repos, candidate) ==
    [k \in DOMAIN repos \cup {candidate.key} |->
        IF k = candidate.key THEN candidate ELSE repos[k]]

\* Config::contains
contains_key_only(repos, candidate) == candidate.key \in DOMAIN repos
contains(repos, candidate) ==
    \E k \in DOMAIN repos : RepoEq(repos[k], candidate)

\* Config::remove: the map without the key, and whether it was there
remove_same_repo(repos, key) ==
    [repos |-> [k \in {j \in DOMAIN repos :
                          j # key /\ (key \in DOMAIN repos => repos[j].path # repos[key].path)}
                  |-> repos[k]],
     removed |-> IF key \in DOMAIN repos THEN repos[key] ELSE NoDescriptor,
     ret |-> key \in DOMAIN repos]
remove(repos, key) ==
    [repos |-> [k \in DOMAIN repos \ {key} |-> repos[k]],
     removed |-> IF key \in DOMAIN repos THEN repos[key] ELSE NoDescriptor,
     ret |-> key \in DOMAIN repos]

\* a key's text, as a sequence of character codes: 1 -> "b", 2 -> "a",
\* 3 -> "ba", 4 -> "aa", ... (distinct keys have distinct texts)
KeyName(k) ==
    (IF k % 2 = 1 THEN <<2>> ELSE <<>>) \o [i \in 1..(k \div 2) |-> 1]

\* String's Ord: byte-wise lexicographic
RECURSIVE LexLess(_, _)
LexLess(a, b) ==
    IF a = <<>> THEN b # <<>>
    ELSE IF b = <<>> THEN FALSE
    ELSE IF a[1] # b[1] THEN a[1] < b[1]
    ELSE LexLess(Tail(a), Tail(b))

\* slice::sort_by with |a, b| a.0.cmp(b.0): a stable sort by key text
RECURSIVE InsertSorted(_, _)
InsertSorted(sorted, e) ==
    IF sorted = <<>> THEN <<e>>
    ELSE IF LexLess(KeyName(e.key), KeyName(Head(sorted).key))
         THEN <<e>> \o sorted
         ELSE <<Head(sorted)>> \o InsertSorted(Tail(sorted), e)
RECURSIVE sort_by(_)
sort_by(s) ==
    IF s = <<>> THEN <<>>
    ELSE InsertSorted(sort_by(SubSeq(s, 1, Len(s) - 1)), s[Len(s)])

\* the orders HashMap::iter may visit the entries in
Orders(repos) ==
    {f \in [1..Cardinality(DOMAIN repos) -> DOMAIN repos] :
        \A i, j \in DOMAIN f : f[i] = f[j] => i = j}

\* Config::repos_sorted; order: the order self.repos.iter() yields
repos_unsorted(repos, order) ==
    [i \in DOMAIN order |-> [key |-> order[i], repo |-> repos[order[i]]]]
repos_sorted(repos, order) ==
    sort_by([i \in DOMAIN order |-> [key |-> order[i], repo |-> repos[order[i]]]])

EmptyConfig == [k \in {} |-> NoDescriptor]
NoOp == [op |-> "none", repo |-> NoDescriptor, key |-> 0, ret |-> FALSE,
         order |-> <<>>, list |-> <<>>, err |-> "none", saved |-> FALSE, exit |-> "",
         remote |-> "", remotes |-> <<>>]

Add(c) ==
    /\ config' = add(config, c)
    /\ last' = [NoOp EXCEPT !.op = "add", !.repo = c, !.key = c.key, !.ret = TRUE]
    /\ UNCHANGED <<updateVars, file, opts, stdout, eq>>

Contains(c) ==
    /\ last' = [NoOp EXCEPT !.op = "contains", !.repo = c, !.key = c.key,
                            !.ret = contains(config, c)]
    /\ UNCHANGED <<updateVars, file, opts, stdout, config, eq>>

\* last.repo: the entry HashMap::remove returned, if any
Remove(k) ==
    /\ config' = remove(config, k).repos
    /\ last' = [NoOp EXCEPT !.op = "remove", !.key = k,
                            !.repo = remove(config, k).removed,
                            !.ret = remove(config, k).ret]
    /\ UNCHANGED <<updateVars, file, opts, stdout, eq>>

\* Config::list, as far as repos_sorted
List(order) ==
    /\ config # EmptyConfig
    /\ last' = [NoOp EXCEPT !.op = "list", !.order = order,
                            !.list = repos_sorted(config, order)]
    /\ UNCHANGED <<updateVars, file, opts, stdout, config, eq>>

---------------------------------------------------------------------------
(* track and untrack: one invocation of the program each (src/src/main.rs) *)

\* what a file operation did: it worked, the file could not be created, or the
\* write failed after the file had been created (and so truncated)
IoOutcomes == {"ok", "create_err", "write_err"}
PartialFile == [state |-> "partial", repos |-> EmptyConfig]
CompleteFile(repos) == [state |-> "complete", repos |-> repos]

\* config.rs:18-37: Config::new creates the file when it is absent, then reads
\* and parses it
Config_new(f, io) ==
    IF f.state = "absent" /\ io = "create_err" THEN [file |-> f, res |-> IOError]
    ELSE IF f.state = "absent" /\ io = "write_err" THEN [file |-> PartialFile, res |-> IOError]
    ELSE IF f.state = "partial" THEN [file |-> f, res |-> Err("JsonError", NoKey)]
    ELSE IF f.state = "absent" THEN [file |-> CompleteFile(EmptyConfig), res |-> Ok(EmptyConfig)]
    ELSE [file |-> f, res |-> Ok(f.repos)]

\* config.rs:71-76: File::create truncates the destination, write_all fills it
save(repos, f, io) ==
    IF io = "create_err" THEN [file |-> f, res |-> IOError]
    ELSE IF io = "write_err" THEN [file |-> PartialFile, res |-> IOError]
    ELSE [file |-> CompleteFile(repos), res |-> Ok("unit")]

\* what Repository::discover finds at a path: nothing, a bare repository, or
\* a work directory (the path itself or a directory above it) and its remotes;
\* lower-numbered paths are the directories above a path
NoPath == 0
Discoveries(p) ==
    {[found |-> FALSE, workdir |-> NoPath, remotes |-> <<>>],
     [found |-> TRUE, workdir |-> NoPath, remotes |-> <<>>]}
    \cup [found : {TRUE}, workdir : {q \in Paths : q <= p},
          remotes : {<<>>, <<"origin">>, <<"origin", "upstream">>}]
\* Path::file_name of a work directory, as a key
file_name(w) == ((w - 1) % NumKeys) + 1

\* repo.rs:178-217: RepoBuilder::build; key NoKey and remote "" are None
build(p, key, remote, branch, d) ==
    IF ~d.found THEN GitError
    ELSE IF d.workdir = NoPath THEN Err("NoRepo", NoKey)
    ELSE IF remote = "" /\ d.remotes = <<>> THEN Err("NoRemotes", NoKey)
    ELSE Ok([key |-> IF key = NoKey THEN file_name(d.workdir) ELSE key,
             path |-> d.workdir,
             remote |-> IF remote = "" THEN d.remotes[1] ELSE remote,
             branch |-> branch])

\* main.rs:94-111: what track does with the result of build
track_unchecked(repos, built) ==
    IF Propagate(built) THEN "Error tracking repository"
    ELSE "add"
track_decision(repos, built) ==
    IF Propagate(built) THEN "Error tracking repository"
    ELSE IF contains(repos, built.value) THEN "Repo is already being tracked"
    ELSE "add"

\* main.rs:250-255 with 78-112: `repo track`
Track(p, key, remote, d, io_load, io_save) ==
    LET loaded == Config_new(file, io_load)
        repos == loaded.res.value
        built == build(p, key, remote, DefaultBranch, d)
        decision == track_decision(repos, built)
        saved == save(add(repos, built.value), loaded.file, io_save)
        op == [NoOp EXCEPT !.op = "track", !.key = key, !.remote = remote,
                           !.remotes = d.remotes]
    IN /\ io_load # "ok" => file.state = "absent"
       /\ IF Propagate(loaded.res)
          THEN /\ io_save = "ok"
               /\ file' = loaded.file
               /\ config' = EmptyConfig
               /\ last' = [op EXCEPT !.err = loaded.res.kind, !.remotes = <<>>,
                                     !.exit = "Error loading config"]
          ELSE IF decision # "add"
          THEN /\ io_save = "ok"
               /\ file' = loaded.file
               /\ config' = repos
               /\ last' = [op EXCEPT !.err = IF Propagate(built) THEN built.kind
                                             ELSE "DuplicateRepo",
                                     !.repo = IF Propagate(built) THEN NoDescriptor
                                              ELSE built.value,
                                     !.exit = decision]
          ELSE /\ file' = saved.file
               /\ config' = add(repos, built.value)
               /\ last' = [op EXCEPT !.repo = built.value, !.saved = TRUE, !.ret = TRUE,
                                     !.err = IF Propagate(saved.res) THEN saved.res.kind
                                             ELSE "none",
                                     !.exit = IF Propagate(saved.res)
                                              THEN "Error saving config" ELSE ""]
       /\ UNCHANGED <<updateVars, opts, stdout, eq>>

\* main.rs:250-256 with 114-123: `repo untrack`
Untrack(k, io_load, io_save) ==
    LET loaded == Config_new(file, io_load)
        repos == loaded.res.value
        removed == remove(repos, k)
        saved == save(removed.repos, loaded.file, io_save)
        op == [NoOp EXCEPT !.op = "untrack", !.key = k]
    IN /\ io_load # "ok" => file.state = "absent"
       /\ IF Propagate(loaded.res)
          THEN /\ io_save = "ok"
               /\ file' = loaded.file
               /\ config' = EmptyConfig
               /\ last' = [op EXCEPT !.err = loaded.res.kind, !.exit = "Error loading config"]
          ELSE IF ~removed.ret
          THEN /\ io_save = "ok"
               /\ file' = loaded.file
               /\ config' = removed.repos
               /\ last' = op
          ELSE /\ file' = saved.file
               /\ config' = removed.repos
               /\ last' = [op EXCEPT !.repo = removed.removed, !.saved = TRUE, !.ret = TRUE,
                                     !.err = IF Propagate(saved.res) THEN saved.res.kind
                                             ELSE "none",
                                     !.exit = IF Propagate(saved.res)
                                              THEN "Error saving config" ELSE ""]
       /\ UNCHANGED <<updateVars, opts, stdout, eq>>

\* main.rs:250-253 with config.rs:47-57: `repo list`
ListAll(io_load, order) ==
    LET loaded == Config_new(file, io_load)
        op == [NoOp EXCEPT !.op = "list"]
    IN /\ io_load # "ok" => file.state = "absent"
       /\ file' = loaded.file
       /\ IF Propagate(loaded.res)
          THEN /\ order = <<>>
               /\ config' = EmptyConfig
               /\ last' = [op EXCEPT !.err = loaded.res.kind, !.exit = "Error loading config"]
          ELSE /\ order \in Orders(loaded.res.value)
               /\ config' = loaded.res.value
               /\ last' = [op EXCEPT !.order = order,
                                     !.list = repos_sorted(loaded.res.value, order)]
       /\ UNCHANGED <<updateVars, opts, stdout, eq>>

\* tests::equality (repo.rs:224-253): compare three descriptors pairwise
NoEq == [repo1 |-> NoDescriptor, repo2 |-> NoDescriptor, repo3 |-> NoDescriptor,
         done |-> FALSE, eq12 |-> FALSE, eq13 |-> FALSE, eq23 |-> FALSE,
         eq21 |-> FALSE, eq11 |-> FALSE]

Equality ==
    /\ ~eq.done
    /\ eq' = [eq EXCEPT !.done = TRUE,
                        !.eq12 = RepoEq(eq.repo1, eq.repo2),
                        !.eq13 = RepoEq(eq.repo1, eq.repo3),
                        !.eq23 = RepoEq(eq.repo2, eq.repo3),
                        !.eq21 = RepoEq(eq.repo2, eq.repo1),
                        !.eq11 = RepoEq(eq.repo1, eq.repo1)]
    /\ UNCHANGED <<updateVars, file, opts, stdout, registryVars>>

---------------------------------------------------------------------------
(* Specifications *)

NoTask == [pc |-> "unspawned", calls |-> <<>>, cmds |-> <<>>, dirty |-> FALSE,
           original_branch |-> "none", requires_branch_change |-> FALSE,
           output |-> "none", ret |-> Pending, updated |-> FALSE,
           proc |-> NoProc, ran |-> FALSE, run |-> Pending]
NoBatch == [pc |-> "spawn", printed |-> {}, message |-> ""]
\* the subcommand and flags of a batch: pull --stash, run --quiet, status --all
PullOpts == [op |-> "pull", quiet |-> FALSE, all |-> FALSE]
\* the config file before the program first ran: absent
NoFile == [state |-> "absent", repos |-> [k \in {} |-> NoDescriptor]]

InitUpdate ==
    /\ allow_stash \in BOOLEAN
    /\ repo \in [Repos -> [key : Repos, branch : {DefaultBranch},
                           repository : {"Some", "None"}]]
    /\ \A r \in Repos : repo[r].key = r
    /\ git \in [Repos -> [state : {"Clean", "Merge"}, head : Branches,
                          worktree : {{}, Work}, stash : {<<>>}]]
    /\ start = git
    /\ task = [r \in Repos |-> NoTask]
    /\ batch = NoBatch
    /\ opts = PullOpts
    /\ stdout = <<>>

IdleUpdate ==
    /\ allow_stash = FALSE
    /\ repo = [r \in Repos |-> [key |-> r, branch |-> DefaultBranch, repository |-> "None"]]
    /\ git = [r \in Repos |-> [state |-> "Clean", head |-> DefaultBranch,
                               worktree |-> {}, stash |-> <<>>]]
    /\ start = git
    /\ task = [r \in Repos |-> NoTask]
    /\ batch = [NoBatch EXCEPT !.pc = "idle"]
    /\ opts = PullOpts
    /\ stdout = <<>>

\* a batch update (`pull`) over NumRepos repositories
Init ==
    /\ InitUpdate
    /\ config = EmptyConfig /\ last = NoOp /\ eq = NoEq /\ file = NoFile

Next ==
    \/ \E r \in Repos : Spawn(r)
    \/ \E r \in Repos : Validate(r)
    \/ \E r \in Repos, o \in DirtyOutcomes : CheckDirty(r, o)
    \/ \E r \in Repos, o \in Outcomes : Stash(r, o)
    \/ \E r \in Repos, o \in BranchOutcomes : CurrentBranch(r, o)
    \/ \E r \in Repos, o \in Outcomes : CheckoutTarget(r, o)
    \/ \E r \in Repos, o \in Outcomes : Rebase(r, o)
    \/ \E r \in Repos, o \in Outcomes : CheckoutOriginal(r, o)
    \/ \E r \in Repos, o \in Outcomes : StashPop(r, o)
    \/ Join

Spec == Init /\ [][Next]_vars

\* the same batch update where only the first repository's start varies: the
\* others are open, clean and on the target branch
InitPull ==
    /\ Init
    /\ \A r \in Repos :
          r # 1 => /\ repo[r].repository = "Some"
                   /\ git[r] = [state |-> "Clean", head |-> DefaultBranch,
                                worktree |-> {}, stash |-> <<>>]

SpecPull == InitPull /\ [][Next]_vars

\* the registry under add, contains and remove
InitRegistry ==
    /\ IdleUpdate
    /\ config = EmptyConfig /\ last = NoOp /\ eq = NoEq /\ file = NoFile

NextRegistry ==
    \/ \E c \in Descriptors : Add(c)
    \/ \E c \in Descriptors : Contains(c)
    \/ \E k \in Keys : Remove(k)
    \/ \E order \in Orders(config) : List(order)

SpecRegistry == InitRegistry /\ [][NextRegistry]_vars

\* the equality of descriptors, over every three descriptors
InitEq ==
    /\ IdleUpdate /\ config = EmptyConfig /\ last = NoOp /\ file = NoFile
    /\ eq \in {[NoEq EXCEPT !.repo1 = a, !.repo2 = b, !.repo3 = c] :
                  a \in Descriptors, b \in Descriptors, c \in Descriptors}

NextEq == Equality

SpecEq == InitEq /\ [][NextEq]_vars

\* the registry an invocation finds in the file
Loaded == IF file.state = "complete" THEN file.repos ELSE EmptyConfig

\* invocations of `repo track` and `repo untrack` against one config file,
\* starting before the file exists; --branch keeps its default
InitTrack ==
    /\ IdleUpdate
    /\ config = EmptyConfig /\ last = NoOp /\ eq = NoEq /\ file = NoFile

NextTrack ==
    \/ \E p \in Paths, key \in Keys \cup {NoKey}, remote \in {"", "upstream"},
          io_load \in IoOutcomes, io_save \in IoOutcomes :
          \E d \in Discoveries(p) : Track(p, key, remote, d, io_load, io_save)
    \/ \E k \in Keys, io_load \in IoOutcomes, io_save \in IoOutcomes :
          Untrack(k, io_load, io_save)
    \/ \E io_load \in IoOutcomes :
          \E order \in Orders(Loaded) \cup {<<>>} : ListAll(io_load, order)

SpecTrack == InitTrack /\ [][NextTrack]_vars

\* a batch `run` (quiet or not) or `status` (--all or not) over NumRepos
\* repositories; `run` never opens the repository, `status` reads its tree
BatchOpts ==
    {[op |-> "run", quiet |-> q, all |-> FALSE] : q \in BOOLEAN}
    \cup {[op |-> "status", quiet |-> FALSE, all |-> a] : a \in BOOLEAN}
InitBatch ==
    /\ allow_stash = FALSE
    /\ opts \in BatchOpts
    /\ repo \in [Repos -> [key : Repos, branch : {DefaultBranch},
                           repository : {"Some", "None"}]]
    /\ \A r \in Repos : repo[r].key = r
    /\ git \in [Repos -> [state : {"Clean"}, head : {DefaultBranch},
                          worktree : {{}, Work}, stash : {<<>>}]]
    /\ \A r \in Repos :
          /\ opts.op = "run" => repo[r].repository = "Some" /\ git[r].worktree = {}
          /\ repo[r].repository = "None" => git[r].worktree = {}
    /\ start = git
    /\ task = [r \in Repos |-> NoTask]
    /\ batch = NoBatch
    /\ stdout = <<>>
    /\ config = EmptyConfig /\ last = NoOp /\ eq = NoEq /\ file = NoFile

NextBatch ==
    \/ \E r \in Repos : Spawn(r)
    \/ \E r \in Repos, o \in DirtyOutcomes : StatusCheck(r, o)
    \/ \E r \in Repos, proc \in Procs : RunCommand(r, proc)
    \/ \E r \in Repos : Emit(r)
    \/ JoinBatch

SpecBatch == InitBatch /\ [][NextBatch]_vars

---------------------------------------------------------------------------
(* Properties of update_repo and of the batch update *)

Done(r) == task[r].pc = "finished"
BatchEnded == batch.pc \in {"done", "exit"}
Args(r) == [i \in 1..Len(task[r].cmds) |-> task[r].cmds[i].args]
Issues(r, args) == \E i \in 1..Len(task[r].cmds) : task[r].cmds[i].args = args
Succeeded(r, args) ==
    \E i \in 1..Len(task[r].cmds) :
        task[r].cmds[i].args = args /\ task[r].cmds[i].o = "ok"
IssuesCheckout(r) ==
    \E i \in 1..Len(task[r].cmds) : task[r].cmds[i].args[1] = "checkout"
\* every library call and every command of the run so far did its work
AllOk(r) ==
    /\ \A i \in 1..Len(task[r].calls) : task[r].calls[i].o = "ok"
    /\ \A i \in 1..Len(task[r].cmds) : task[r].cmds[i].o = "ok"
\* a step of the run itself failed: a library call, a command, or the stash gate
OwnFailure(r) ==
    \/ \E i \in 1..Len(task[r].calls) : task[r].calls[i].o = "err"
    \/ \E i \in 1..Len(task[r].cmds) : task[r].cmds[i].o # "ok"
    \/ task[r].dirty /\ ~allow_stash
\* the complete command sequence of a run, given what the run found
FullSequence(r) ==
    LET stashes == task[r].dirty /\ allow_stash
        switches == task[r].requires_branch_change
    IN (IF stashes THEN <<stash_args>> ELSE <<>>)
       \o (IF switches THEN <<checkout_args(repo[r].branch)>> ELSE <<>>)
       \o <<rebase_args>>
       \o (IF switches THEN <<checkout_args(task[r].original_branch)>> ELSE <<>>)
       \o (IF stashes THEN <<stash_pop_args>> ELSE <<>>)
TaskStep(r) ==
    \/ Validate(r)
    \/ \E o \in DirtyOutcomes : CheckDirty(r, o)
    \/ \E o \in Outcomes : Stash(r, o)
    \/ \E o \in BranchOutcomes : CurrentBranch(r, o)
    \/ \E o \in Outcomes : CheckoutTarget(r, o)
    \/ \E o \in Outcomes : Rebase(r, o)
    \/ \E o \in Outcomes : CheckoutOriginal(r, o)
    \/ \E o \in Outcomes : StashPop(r, o)

\* C1: when the dirty check of update_repo reports a dirty working tree and
\* allow_stash is false, the run returns RepoDirty for its key, has issued no
\* git subcommand, and the branch, working tree and stash list are as they
\* were before the run.
C1_StashGating ==
    \A r \in Repos :
        (task[r].dirty /\ ~allow_stash) =>
            /\ Done(r)
            /\ task[r].ret = Err("RepoDirty", repo[r].key)
            /\ task[r].cmds = <<>>
            /\ git[r] = start[r]

C1_Witness ==
    \E r \in Repos :
        /\ Done(r) /\ ~allow_stash /\ task[r].dirty
        /\ start[r].worktree # {}
        /\ task[r].ret.kind = "RepoDirty"

\* C2: in every state of every run, the uncommitted changes the working tree
\* held when the run started are in the working tree or in the top stash
\* entry, which this run's `git stash` created.
C2_NoWorkLost ==
    \A r \in Repos :
        \/ start[r].worktree \subseteq git[r].worktree
        \/ /\ git[r].stash # <<>>
           /\ start[r].worktree \subseteq Head(git[r].stash)
           /\ Succeeded(r, stash_args)

C2_Witness ==
    \E r, q \in Repos :
        /\ Done(r) /\ ~task[r].ret.ok
        /\ start[r].worktree # {} /\ git[r].worktree = {}
        /\ git[r].stash = <<start[r].worktree>>
        /\ Done(q) /\ task[q].ret.ok
        /\ start[q].worktree # {} /\ git[q].worktree = start[q].worktree
        /\ Succeeded(q, stash_pop_args)

\* C3: the batch ends only when every task has finished; a task's result is
\* decided by its own steps alone (it succeeds, with its full command
\* sequence issued and "Updated" printed, exactly when none of its own steps
\* failed), whatever its siblings did; a started task that has not finished
\* can always take its next step; exactly the failed tasks are printed as
\* errors.
C3_FailureIsolation ==
    /\ BatchEnded => \A r \in Repos : Done(r)
    /\ \A r \in Repos :
          /\ Done(r) =>
                /\ task[r].ret.ok <=> ~OwnFailure(r)
                /\ task[r].ret.ok => (task[r].updated /\ Args(r) = FullSequence(r))
          /\ task[r].pc \notin {"unspawned", "finished"} => ENABLED TaskStep(r)
    /\ BatchEnded =>
          /\ batch.printed = {r \in Repos : ~task[r].ret.ok}
          /\ batch.pc = "exit" <=> batch.printed # {}

C3_Witness ==
    \E r \in Repos :
        /\ batch.pc = "exit"
        /\ task[r].ret = Err("OperationsInProgress", repo[r].key)
        /\ batch.printed = {r}
        /\ \A q \in Repos \ {r} :
              /\ task[q].ret.ok /\ task[q].updated
              /\ Len(task[q].cmds) = 5

\* C4: a failed step is the last step of its run: nothing is issued after a
\* failed command or library call, the run has returned the error, and when
\* pull --rebase fails after the switch to the target branch the repository
\* stays on the target branch, with no checkout of the original branch and no
\* stash pop issued.
C4_NoCompensation ==
    \A r \in Repos :
        LET c == task[r].cmds
            l == task[r].calls
        IN /\ \A i \in 1..Len(c) :
                 c[i].o # "ok" => (i = Len(c) /\ Done(r) /\ ~task[r].ret.ok)
           /\ \A i \in 1..Len(l) :
                 l[i].o # "ok" => (i = Len(l) /\ Done(r) /\ ~task[r].ret.ok
                                    /\ Len(c) <= 1)
           /\ (Issues(r, rebase_args) /\ ~Succeeded(r, rebase_args)
                  /\ task[r].requires_branch_change) =>
                 /\ c[Len(c)].args = rebase_args
                 /\ git[r].head = repo[r].branch
                 /\ ~Issues(r, checkout_args(task[r].original_branch))
                 /\ ~Issues(r, stash_pop_args)

C4_Witness ==
    \E r \in Repos :
        /\ Done(r) /\ ~task[r].ret.ok
        /\ Args(r) = <<stash_args, checkout_args(repo[r].branch), rebase_args>>
        /\ task[r].cmds[3].o = "fail"
        /\ start[r].head # repo[r].branch /\ git[r].head = repo[r].branch
        /\ git[r].stash # <<>>

\* C5: in a batch with allow_stash where every repository is already on its
\* target branch and every library call and command succeeds, every task
\* succeeds and the batch ends without failure; a dirty repository's task
\* issues exactly stash, pull --rebase, stash pop, and a clean repository's
\* task exactly pull --rebase.
C5_Scenario(r) ==
    /\ start[r].head = repo[r].branch
    /\ AllOk(r)
    /\ task[r].dirty = (start[r].worktree # {})

C5_EndToEnd ==
    (BatchEnded /\ allow_stash /\ \A r \in Repos : C5_Scenario(r)) =>
        /\ batch.pc = "done"
        /\ \A r \in Repos :
              /\ task[r].ret.ok /\ task[r].updated
              /\ Args(r) = IF start[r].worktree # {}
                           THEN <<stash_args, rebase_args, stash_pop_args>>
                           ELSE <<rebase_args>>
              /\ git[r] = start[r]

C5_Witness ==
    /\ batch.pc = "done" /\ allow_stash
    /\ \A r \in Repos : C5_Scenario(r)
    /\ \E a, b \in Repos :
          /\ start[a].worktree = {} /\ Args(a) = <<rebase_args>>
          /\ start[b].worktree # {}
          /\ Args(b) = <<stash_args, rebase_args, stash_pop_args>>

\* C6, as claimed: when the target branch is the checked-out branch,
\* update_repo issues no checkout, and it succeeds given a successful
\* pull --rebase.
C6_AsClaimed ==
    \A r \in Repos :
        start[r].head = repo[r].branch =>
            /\ ~IssuesCheckout(r)
            /\ (Done(r) /\ Succeeded(r, rebase_args)) => task[r].ret.ok

\* C6, amended: when the target branch is the checked-out branch, update_repo
\* issues no checkout, and it succeeds given a successful pull --rebase and,
\* when this run stashed, a successful stash pop.
C6_NoOpSwitch ==
    \A r \in Repos :
        start[r].head = repo[r].branch =>
            /\ ~IssuesCheckout(r)
            /\ (Done(r) /\ Succeeded(r, rebase_args)
                  /\ (Issues(r, stash_args) => Succeeded(r, stash_pop_args)))
               => task[r].ret.ok

C6_Witness ==
    \E r \in Repos :
        /\ start[r].head = repo[r].branch
        /\ Done(r) /\ task[r].ret.ok
        /\ Args(r) = <<stash_args, rebase_args, stash_pop_args>>

\* C7: when the repository's state is not Clean, update_repo returns
\* OperationsInProgress for its key after the validate step alone: no dirty
\* check, no branch read and no git subcommand.
C7_ValidateHardStop ==
    \A r \in Repos :
        (repo[r].repository = "Some" /\ start[r].state # "Clean"
            /\ task[r].calls # <<>>) =>
            /\ Done(r)
            /\ task[r].ret = Err("OperationsInProgress", repo[r].key)
            /\ task[r].calls = <<[call |-> "validate", o |-> "err"]>>
            /\ task[r].cmds = <<>>
            /\ git[r] = start[r]

C7_Witness ==
    \E r \in Repos :
        /\ start[r].state = "Merge" /\ start[r].worktree # {}
        /\ Done(r) /\ task[r].ret.kind = "OperationsInProgress"

\* C8: every error update_repo returns carries the key of its repository.
C8_ErrorsCarryKey ==
    \A r \in Repos :
        (Done(r) /\ ~task[r].ret.ok) => task[r].ret.key = repo[r].key

IsPrefix(s, t) == Len(s) <= Len(t) /\ \A i \in 1..Len(s) : s[i] = t[i]
Count(r, args) == Cardinality({i \in 1..Len(task[r].cmds) : task[r].cmds[i].args = args})
CallsOk(r) == \A i \in 1..Len(task[r].calls) : task[r].calls[i].o = "ok"

\* C23: the git subcommands a run of update_repo has issued are a prefix of
\* stash (if dirty and stashing), checkout target (if the current branch
\* differs), pull --rebase, checkout original, stash pop; a finished run
\* issued the checkout of the original branch exactly when it issued the
\* checkout of the target and the rebase succeeded, and issued stash pop
\* exactly when its stash succeeded and every later call and command before
\* the pop succeeded too.
C23_StepOrder ==
    \A r \in Repos :
        /\ IsPrefix(Args(r), FullSequence(r))
        /\ Done(r) =>
              /\ (task[r].requires_branch_change
                  /\ Issues(r, checkout_args(task[r].original_branch)))
                 <=> (Issues(r, checkout_args(repo[r].branch)) /\ Succeeded(r, rebase_args))
              /\ Issues(r, stash_pop_args)
                 <=> /\ Succeeded(r, stash_args)
                     /\ CallsOk(r)
                     /\ Succeeded(r, rebase_args)
                     /\ \A i \in 1..Len(task[r].cmds) :
                           task[r].cmds[i].args # stash_pop_args => task[r].cmds[i].o = "ok"
C23_Witness ==
    \E r \in Repos :
        /\ Done(r)
        /\ Len(task[r].cmds) = 5
        /\ Args(r) = <<stash_args, checkout_args(DefaultBranch), rebase_args,
                       checkout_args("dev"), stash_pop_args>>

\* C24: a run of update_repo is attempted once per repository and batch; it
\* issues stash, pull --rebase and stash pop at most once each and checkout
\* at most twice, and a command that failed is the last one the run issued:
\* the run has ended with that command's error.
C24_NoRetries ==
    \A r \in Repos :
        /\ Cardinality({i \in 1..Len(task[r].calls) : task[r].calls[i].call = "validate"}) <= 1
        /\ Count(r, stash_args) <= 1
        /\ Count(r, rebase_args) <= 1
        /\ Count(r, stash_pop_args) <= 1
        /\ Cardinality({i \in 1..Len(task[r].cmds) : task[r].cmds[i].args[1] = "checkout"}) <= 2
        /\ \A i \in 1..Len(task[r].cmds) :
              task[r].cmds[i].o # "ok" =>
                  /\ i = Len(task[r].cmds)
                  /\ Done(r)
                  /\ task[r].ret = run(r, task[r].cmds[i].args, task[r].cmds[i].o)
                  /\ ~task[r].ret.ok
C24_Witness ==
    /\ BatchEnded
    /\ \E r \in Repos :
          /\ Len(task[r].cmds) = 3
          /\ task[r].cmds[3].args = rebase_args
          /\ task[r].cmds[3].o = "fail"
          /\ task[r].ret.kind = "CommandFailed"
          /\ r \in batch.printed

---------------------------------------------------------------------------
(* Properties of the registry and of the equality of descriptors *)

\* C9: right after add(a), contains(b) is true for every descriptor b that
\* has a's key or a's path, whatever remote and branch a and b have and
\* whatever else the registry holds.
C9_DuplicateDetection ==
    last.op = "add" =>
        \A b \in Descriptors :
            (b.key = last.repo.key \/ b.path = last.repo.path) => contains(config, b)

C9_Witness ==
    /\ last.op = "add"
    /\ Cardinality(DOMAIN config) >= 2
    /\ \E b \in Descriptors :
          /\ b.path = last.repo.path /\ b.key # last.repo.key
          /\ b.remote # last.repo.remote /\ b.branch # last.repo.branch
          /\ \A k \in DOMAIN config \ {last.repo.key} : config[k].path # b.path
          /\ contains(config, b)

\* C10: two descriptors are the same repository exactly when their keys are
\* equal or their paths are equal; the relation is reflexive and symmetric,
\* two descriptors that differ in key and in path are not the same even when
\* each is the same as a third, and remote and branch have no influence.
C10_SameRepository ==
    eq.done =>
        /\ eq.eq12 = (eq.repo1.key = eq.repo2.key \/ eq.repo1.path = eq.repo2.path)
        /\ eq.eq13 = (eq.repo1.key = eq.repo3.key \/ eq.repo1.path = eq.repo3.path)
        /\ eq.eq23 = (eq.repo2.key = eq.repo3.key \/ eq.repo2.path = eq.repo3.path)
        /\ eq.eq11
        /\ eq.eq21 = eq.eq12
        /\ (eq.repo2.key # eq.repo3.key /\ eq.repo2.path # eq.repo3.path) => ~eq.eq23
        /\ \A rm \in Remotes, br \in Branches :
              RepoEq([eq.repo1 EXCEPT !.remote = rm, !.branch = br], eq.repo2) = eq.eq12

C10_Witness ==
    /\ eq.done
    /\ eq.eq12 /\ eq.eq13 /\ ~eq.eq23
    /\ eq.repo1.key = eq.repo2.key /\ eq.repo1.path # eq.repo2.path
    /\ eq.repo1.path = eq.repo3.path /\ eq.repo1.key # eq.repo3.key
    /\ eq.repo1.remote # eq.repo2.remote /\ eq.repo1.branch # eq.repo2.branch

\* C11: the listing holds every entry of the registry exactly once, its keys
\* strictly ascending in lexicographic order, and it is the same whatever
\* order the map yields its entries in.
C11_SortedListing ==
    last.op = "list" =>
        /\ Len(last.list) = Cardinality(DOMAIN config)
        /\ \A k \in DOMAIN config :
              \E i \in DOMAIN last.list :
                  last.list[i] = [key |-> k, repo |-> config[k]]
        /\ \A i, j \in DOMAIN last.list :
              i < j => LexLess(KeyName(last.list[i].key), KeyName(last.list[j].key))
        /\ \A order \in Orders(config) : repos_sorted(config, order) = last.list

C11_Witness ==
    /\ last.op = "list"
    /\ Len(last.list) >= 2
    /\ last.order[1] # last.list[1].key
    /\ last.list[1].key > last.list[2].key

\* C16: a remove(key) step returns true exactly when the key was in the map;
\* afterwards the key is not in the map, and every other entry is there as it
\* was, an entry with the removed entry's path under another key included.
C16_Remove ==
    [][last'.op = "remove" =>
          /\ last'.ret = (last'.key \in DOMAIN config)
          /\ last'.key \notin DOMAIN config'
          /\ DOMAIN config' = DOMAIN config \ {last'.key}
          /\ \A k \in DOMAIN config' : config'[k] = config[k]]_vars

C16_Witness ==
    /\ last.op = "remove" /\ last.ret
    /\ \E k \in DOMAIN config : k # last.key /\ config[k].path = last.repo.path

\* C17: an add(descriptor) step puts the descriptor under its key whatever the
\* map holds: an entry with that key is replaced (the size stays), an entry
\* with the descriptor's path under another key stays beside it, and every
\* other entry is as it was.
C17_Add ==
    [][last'.op = "add" =>
          /\ DOMAIN config' = DOMAIN config \cup {last'.repo.key}
          /\ config'[last'.repo.key] = last'.repo
          /\ \A k \in DOMAIN config \ {last'.repo.key} : config'[k] = config[k]
          /\ last'.repo.key \in DOMAIN config =>
                Cardinality(DOMAIN config') = Cardinality(DOMAIN config)]_vars

C17_Witness ==
    /\ last.op = "add"
    /\ config[last.key] = last.repo
    /\ \E k \in DOMAIN config : k # last.key /\ config[k].path = last.repo.path

\* C20: the batch spawns one task per registry entry, and it spawns them in
\* ascending order of key: a task is spawned only when the task of every
\* entry with a smaller key has been spawned.
C20_SpawnOrder ==
    [][\A r \in Repos :
          (task[r].pc = "unspawned" /\ task'[r].pc # "unspawned") =>
              /\ task'[r].pc = "validate"
              /\ \A q \in Repos :
                    LexLess(KeyName(repo[q].key), KeyName(repo[r].key)) =>
                        task[q].pc # "unspawned"]_vars

---------------------------------------------------------------------------
(* Properties of the run and status batches *)

Reporting == ~(opts.op = "run" /\ opts.quiet)
TaskErrors == {r \in Repos : Done(r) /\ task[r].ret.kind \notin {"Ok", "JoinError", "Pending"}}
LinesOf(r) == SelectSeq(stdout, LAMBDA l : l.key = repo[r].key)

\* C13: once every task of a batch has completed, reporting is not suppressed
\* and some task returned an error, the batch exits with the failure message
\* of the subcommand and every task error is printed; a status task that
\* produced nothing because the tree is clean is a success and is not printed.
C13_FailureSignal ==
    /\ (BatchEnded /\ Reporting /\ TaskErrors # {}) =>
          /\ batch.pc = "exit"
          /\ batch.printed = TaskErrors
          /\ batch.message = FailureMessage(opts.op)
    /\ \A r \in Repos :
          (Done(r) /\ opts.op = "status" /\ ~opts.all /\ ~task[r].ran /\ task[r].ret.ok) =>
              r \notin batch.printed

\* C14: Repo::run succeeds with the captured result exactly when the process
\* exits with code 0; on any other exit code it returns CommandFailed with the
\* repository's key, the invocation, and the exit status, stdout and stderr
\* the process produced.
C14_RunOutcome ==
    \A r \in Repos :
        task[r].ran =>
            LET proc == task[r].proc
                res == task[r].run
            IN /\ res.ok <=> (proc.spawned /\ proc.code = 0)
               /\ res.ok =>
                     res.value = [status |-> 0, stdout |-> proc.stdout, stderr |-> proc.stderr]
               /\ (proc.spawned /\ proc.code # 0) =>
                     /\ res.kind = "CommandFailed"
                     /\ res.key = repo[r].key
                     /\ res.value.cmd = Invocation(opts.op)
                     /\ res.value.output = [status |-> proc.code, stdout |-> proc.stdout,
                                            stderr |-> proc.stderr]
C14_Witness ==
    \E r \in Repos :
        /\ task[r].ran
        /\ task[r].proc.spawned /\ task[r].proc.code = 1
        /\ task[r].proc.stdout = "out" /\ task[r].proc.stderr = "err"
        /\ task[r].run.kind = "CommandFailed"
        /\ task[r].run.value.output.stdout = "out"

\* C18: the batch decides about failure, prints its final line or exits only
\* when every spawned task has finished; while any task is still running the
\* orchestrator is still waiting, whatever its siblings returned.
C18_WaitsForAll ==
    /\ (BatchEnded \/ \E i \in 1..Len(stdout) : stdout[i] = DoneLine) =>
          \A r \in Repos : Done(r)
    /\ \A r \in Repos :
          task[r].pc \notin {"unspawned", "finished"} => batch.pc \in {"spawn", "join"}
    /\ \A i \in 1..Len(stdout) : stdout[i] = DoneLine => i = Len(stdout)
C18_Witness ==
    /\ batch.pc = "exit"
    /\ \E r, q \in Repos :
          /\ Done(r) /\ task[r].ret.kind = "CommandFailed"
          /\ Done(q) /\ task[q].ret.ok /\ Len(LinesOf(q)) = 3

\* C19: the lines printed for one repository are contiguous in the output,
\* they are exactly the key label followed by the non-empty captured stdout
\* and stderr, and they appear only once that repository's command completed.
C19_AtomicBlocks ==
    /\ \A i, j \in 1..Len(stdout) :
          (i < j /\ stdout[i].key = stdout[j].key) =>
              \A m \in i..j : stdout[m].key = stdout[i].key
    /\ \A r \in Repos :
          LinesOf(r) # <<>> =>
              /\ task[r].ran /\ task[r].run.ok /\ Done(r)
              /\ LinesOf(r) = <<Line(repo[r].key, "header")>>
                     \o (IF task[r].proc.stdout # ""
                         THEN <<Line(repo[r].key, task[r].proc.stdout)>> ELSE <<>>)
                     \o (IF task[r].proc.stderr # ""
                         THEN <<Line(repo[r].key, task[r].proc.stderr)>> ELSE <<>>)
C19_Witness ==
    /\ Len(stdout) >= 6
    /\ \E r, q \in Repos :
          /\ repo[q].key < repo[r].key
          /\ \A i \in 1..3 : stdout[i].key = repo[r].key
          /\ \A i \in 4..6 : stdout[i].key = repo[q].key

---------------------------------------------------------------------------
(* Properties of track and of save *)

\* C12: a track that ends in a construction error (the path is not in a
\* repository, the repository is bare, or it has no remote) or that finds the
\* candidate tracked already, by key or by path, changes nothing: the registry
\* it loaded is the registry it ends with, and the file is not saved.
C12_TrackFrame ==
    [][(/\ last'.op = "track"
        /\ \/ last'.err \in {"GitError", "NoRepo", "NoRemotes"}
           \/ /\ last'.repo # NoDescriptor
              /\ \E k \in DOMAIN Loaded :
                    \/ Loaded[k].key = last'.repo.key
                    \/ Loaded[k].path = last'.repo.path) =>
          /\ config' = Loaded
          /\ ~last'.saved
          /\ file'.state = "complete" /\ file'.repos = Loaded
          /\ last'.exit \in {"Error tracking repository",
                             "Repo is already being tracked"}]_vars
C12_Witness ==
    /\ last.op = "track"
    /\ last.exit = "Repo is already being tracked"
    /\ last.repo.key \notin DOMAIN config
    /\ \E k \in DOMAIN config : config[k].path = last.repo.path
    /\ Cardinality(DOMAIN config) = 1
    /\ file = CompleteFile(config)

\* C15: when save fails, the file holds the complete registry it held before
\* or the complete new registry, never less.
C15_AtomicSave ==
    [][(last'.saved /\ last'.exit = "Error saving config") =>
          /\ file'.state = "complete"
          /\ file'.repos = Loaded \/ file'.repos = config']_vars

---------------------------------------------------------------------------
(* Properties of the quiet run, of the builder and of the config file *)

\* C25: a quiet run batch ends only when every task has finished, and then
\* normally: it prints done, exits with no failure message and prints no task
\* error, whatever the tasks returned; a task whose command succeeded with
\* output has its block on standard output.
C25_QuietRun ==
    (opts.op = "run" /\ opts.quiet) =>
        /\ BatchEnded =>
              /\ \A r \in Repos : Done(r)
              /\ batch.pc = "done" /\ batch.message = "" /\ batch.printed = {}
              /\ Len(stdout) > 0 /\ stdout[Len(stdout)] = DoneLine
        /\ \A r \in Repos :
              (Done(r) /\ task[r].ret.ok) =>
                  LinesOf(r) = collect_output(repo[r].key, Output(task[r].proc)).lines
C25_Witness ==
    /\ opts.op = "run" /\ opts.quiet
    /\ batch.pc = "done"
    /\ \E r, q \in Repos :
          /\ task[r].ret.kind = "CommandFailed"
          /\ task[q].ret.ok /\ Len(LinesOf(q)) = 3

Configured(remotes) == {remotes[i] : i \in 1..Len(remotes)}

\* C21: the remote of every descriptor the builder produces is a remote
\* configured on the repository: the first configured one when the caller
\* supplied none (NoRemotes when there is none), and a configured one when
\* the caller supplied it.
C21_RemoteConfigured ==
    (last.op = "track" /\ last.exit # "Error loading config") =>
        /\ last.repo # NoDescriptor =>
              /\ last.repo.remote \in Configured(last.remotes)
              /\ last.remote = "" => last.repo.remote = last.remotes[1]
        /\ (last.remote = "" /\ last.remotes = <<>> /\ last.err \notin {"GitError", "NoRepo"}) =>
              last.err = "NoRemotes"

\* C22: an invocation that finds no config file does not fail to load: it
\* works on an empty registry, and the location then holds an empty registry
\* for the next load.
C22_AbsentIsEmpty ==
    [][(file.state = "absent" /\ last'.op = "list") =>
          /\ last'.exit = "" /\ last'.err = "none"
          /\ config' = EmptyConfig /\ last'.list = <<>>
          /\ Config_new(file', "ok").res = Ok(EmptyConfig)]_vars

\* C26: under track and untrack, from an empty registry, no two distinct
\* entries of the registry share a key or a path and every entry is stored
\* under its own key; this holds of the registry in memory and of the saved
\* one.
UniqueEntries(repos) ==
    /\ \A k \in DOMAIN repos : repos[k].key = k
    /\ \A j, k \in DOMAIN repos :
          j # k => repos[j].key # repos[k].key /\ repos[j].path # repos[k].path
C26_RegistryInvariant == UniqueEntries(config) /\ UniqueEntries(file.repos)
C26_Witness ==
    /\ Cardinality(DOMAIN file.repos) = 2
    /\ file.state = "complete"
    /\ last.op = "track" /\ last.saved /\ last.exit = ""
    /\ config = file.repos
    /\ \E k \in DOMAIN config : config[k].path # k

=============================================================================
